---- MODULE Spec2Model ----
(***************************************************************************)
(* StaticVerifierFunctionEmitter of mlir/lib/TableGen/CodeGenHelpers.cpp:  *)
(* the constraint registries, the name generator, the collection passes,   *)
(* the lookups and the emission passes.                                    *)
(*                                                                         *)
(* Text (StringRef, std::string) is a sequence of one-character strings,   *)
(* so that concatenation, sanitising and escaping work on characters.      *)
(* A condition template is a sequence of chunks, each a placeholder or a   *)
(* piece of literal text.                                                  *)
(***************************************************************************)
EXTENDS Integers, Sequences, FiniteSets, TLC

\* ------------------------------------------------------------------ bounds

\* Longest array of operation definitions handed to one call.
MaxOps == 1
\* Longest array of pattern leaves handed to one call.
MaxLeaves == 1
\* Emission calls are enabled while the output holds fewer pieces than this.
MaxOutput == 4
\* Longest sequence of calls replayed on the two runs of SpecDet.
MaxScript == 3
\* Largest ordinal for which the name generator is compared with itself.
MaxOrdinal == 12

\* ------------------------------------------------------------------ text

RECURSIVE Concat(_)
\* The concatenation of a sequence of texts.
Concat(ss) == IF ss = <<>> THEN <<>> ELSE Head(ss) \o Concat(Tail(ss))

IsSuffix(suffix, s) ==
    /\ Len(suffix) <= Len(s)
    /\ SubSeq(s, Len(s) - Len(suffix) + 1, Len(s)) = suffix

IsPrefix(p, s) == Len(p) <= Len(s) /\ SubSeq(s, 1, Len(p)) = p

Range(s) == {s[i] : i \in DOMAIN s}

Digits == <<"0", "1", "2", "3", "4", "5", "6", "7", "8", "9">>
HexDigits == Digits \o <<"A", "B", "C", "D", "E", "F">>
LowerCase == {"a", "b", "c", "d", "e", "f", "g", "h", "i", "j", "k", "l", "m",
              "n", "o", "p", "q", "r", "s", "t", "u", "v", "w", "x", "y", "z"}
UpperCase == {"A", "B", "C", "D", "E", "F", "G", "H", "I", "J", "K", "L", "M",
              "N", "O", "P", "Q", "R", "S", "T", "U", "V", "W", "X", "Y", "Z"}

\* The byte value of the characters that are neither letters nor digits and
\* occur in the input file names.
CharCode(c) ==
    CASE c = " " -> 32
      [] c = "+" -> 43
      [] c = "-" -> 45
      [] c = "." -> 46
      [] c = "/" -> 47
      [] c = "_" -> 95

isAlnum(c) == c \in LowerCase \cup UpperCase \cup Range(Digits)

RECURSIVE utohexstr(_)
\* llvm::utohexstr: upper-case hexadecimal, no leading zeros, "0" for zero.
utohexstr(x) ==
    IF x < 16 THEN <<HexDigits[x + 1]>>
    ELSE utohexstr(x \div 16) \o <<HexDigits[(x % 16) + 1]>>

RECURSIVE utostr(_)
\* Twine(unsigned): decimal, no leading zeros.
utostr(x) ==
    IF x < 10 THEN <<Digits[x + 1]>>
    ELSE utostr(x \div 10) \o <<Digits[(x % 10) + 1]>>

\* llvm::sys::path::filename: the part after the last separator.
filename(path) ==
    LET seps == {i \in DOMAIN path : path[i] = "/"}
    IN  IF seps = {} THEN path
        ELSE LET last == CHOOSE i \in seps : \A j \in seps : j <= i
             IN  SubSeq(path, last + 1, Len(path))

\* StringRef::consume_back: drop the suffix when the text ends with it.
consume_back(s, suffix) ==
    IF IsSuffix(suffix, s) THEN SubSeq(s, 1, Len(s) - Len(suffix)) ELSE s

\* The loop body of getUniqueOutputLabel: what one character appends.
SanitizeChar(c) ==
    IF isAlnum(c) \/ c = "_" THEN <<c>> ELSE utohexstr(CharCode(c))

\* The label without the file name: the tag alone.
getUniqueOutputLabel_tagOnly(inputFilename, tag) == tag

getUniqueOutputLabel(inputFilename, tag) ==
    LET nameRef == consume_back(filename(inputFilename), <<".", "t", "d">>)
    IN  tag \o Concat([i \in DOMAIN nameRef |-> SanitizeChar(nameRef[i])])

\* mlir::tblgen::escapeString (raw_ostream::write_escaped) on the characters
\* that occur in the summaries.
EscapeChar(c) ==
    CASE c = "\\" -> <<"\\", "\\">>
      [] c = "\t" -> <<"\\", "t">>
      [] c = "\n" -> <<"\\", "n">>
      [] c = "\"" -> <<"\\", "\"">>
      [] OTHER -> <<c>>

escapeString(value) == Concat([i \in DOMAIN value |-> EscapeChar(value[i])])

\* ------------------------------------------------------- placeholder substitution

Placeholders == {"$_self", "$_op", "$_builder", "$_arg"}
kMarkerForNoSubst == "<no-subst-found>"

\* FmtContext().addSubst("_op", "*op").withSelf(selfName)
OpCtx(selfName) ==
    [p \in {"$_op", "$_self"} |-> IF p = "$_op" THEN "*op" ELSE selfName]

\* FmtContext().addSubst("_op", "*op").withBuilder("rewriter").withSelf(selfName)
PatternCtx(selfName) ==
    [p \in {"$_op", "$_builder", "$_self"} |->
        CASE p = "$_op" -> "*op"
          [] p = "$_builder" -> "rewriter"
          [] OTHER -> selfName]

\* tgfmt(template, &ctx).str(): every placeholder the context binds is
\* replaced by its binding, every other placeholder by the marker.
tgfmt(template, ctx) ==
    [i \in DOMAIN template |->
        IF template[i] \in Placeholders
        THEN IF template[i] \in DOMAIN ctx THEN ctx[template[i]]
             ELSE kMarkerForNoSubst
        ELSE template[i]]

\* StringRef(test).contains("<no-subst-found>")
ContainsMarker(text) == \E i \in DOMAIN text : text[i] = kMarkerForNoSubst

\* ------------------------------------------------------------------ inputs

\* A Constraint value: the key of a registry. Two constraints are the same
\* when all their fields are equal.
Constraint(cond, summary, iface) ==
    [conditionTemplate |-> cond, summary |-> summary, interfaceType |-> iface]

I32 == Constraint(<<"$_self", ".isInteger(32)">>, <<"i", "3", "2">>, <<>>)
F32 == Constraint(<<"$_self", ".isF32()">>, <<"f", "3", "2">>, <<>>)
AnyType == Constraint(<<"true">>, <<"a", "n", "y">>, <<>>)

\* $_self.getValue() > 0, "positive": refers to itself only.
PositiveAttr == Constraint(<<"$_self", ".getValue() > 0">>, <<"p", "o", "s">>, <<>>)
\* Refers to an operand: no binding of the operation context resolves it.
OperandAttr ==
    Constraint(<<"$_self", ".getType() == ", "$_arg", ".getType()">>,
               <<"s", "a", "m", "e", " ", "\"", "t", "\"">>, <<>>)
\* Refers to the enclosing operation.
SizeAttr == Constraint(<<"$_self", ".size() == ", "$_op", ".getNumOperands()">>,
                       <<"s", "z">>, <<>>)

Int64 == <<"i", "n", "t", "6", "4", "_", "t">>
NonNegProp == Constraint(<<"$_self", " >= 0">>, <<"n", "n">>, Int64)
GenericProp == Constraint(<<"$_self", " >= 0">>, <<"n", "n">>, <<>>)
TrueProp == Constraint(<<"true">>, <<"a", "n", "y">>, Int64)
OperandProp == Constraint(<<"$_self", " < ", "$_arg">>, <<"l", "t">>, Int64)

AnySuccessor == Constraint(<<"true">>, <<"a", "n", "y">>, <<>>)
OneBlockRegion == Constraint(<<"$_self", ".hasOneBlock()">>, <<"o", "n", "e">>, <<>>)

TypeConstraintSet == {I32, F32, AnyType}
AttrConstraintSet == {PositiveAttr, OperandAttr, SizeAttr}
PropConstraintSet == {NonNegProp, GenericProp, TrueProp, OperandProp}
SuccessorConstraintSet == {AnySuccessor}
RegionConstraintSet == {OneBlockRegion}

\* NamedTypeConstraint, NamedAttribute, NamedProperty, NamedSuccessor, NamedRegion
Value(hasPredicate, c) == [hasPredicate |-> hasPredicate, constraint |-> c]
NamedAttr(predIsNull, derived, c) ==
    [predicateIsNull |-> predIsNull, isDerivedAttr |-> derived, attr |-> c]
NamedProp(predIsNull, c) == [predicateIsNull |-> predIsNull, prop |-> c]
Named(predIsNull, c) == [predicateIsNull |-> predIsNull, constraint |-> c]

\* Operator(*def) of two operation definitions.
OpA ==
    [cppNamespace |-> <<"a">>,
     operands |-> <<Value(TRUE, I32)>>,
     results |-> <<Value(TRUE, F32)>>,
     attributes |-> <<NamedAttr(FALSE, FALSE, PositiveAttr),
                      NamedAttr(FALSE, FALSE, OperandAttr)>>,
     properties |-> <<NamedProp(FALSE, NonNegProp), NamedProp(FALSE, TrueProp)>>,
     successors |-> <<>>,
     regions |-> <<>>]

OpB ==
    [cppNamespace |-> <<>>,
     operands |-> <<Value(TRUE, F32), Value(TRUE, I32)>>,
     results |-> <<Value(FALSE, AnyType)>>,
     attributes |-> <<NamedAttr(FALSE, TRUE, SizeAttr),
                      NamedAttr(TRUE, FALSE, SizeAttr),
                      NamedAttr(FALSE, FALSE, PositiveAttr)>>,
     properties |-> <<NamedProp(FALSE, GenericProp), NamedProp(FALSE, OperandProp),
                      NamedProp(TRUE, NonNegProp)>>,
     successors |-> <<Named(FALSE, AnySuccessor), Named(TRUE, AnySuccessor)>>,
     regions |-> <<Named(TRUE, OneBlockRegion), Named(FALSE, OneBlockRegion)>>]

OpSet == {OpA, OpB}

\* DagLeaf: an operand, attribute or property matcher and its constraint
\* (collectPatternConstraints asserts that a leaf is one of the three).
Leaf(matcher, c) == [matcher |-> matcher, constraint |-> c]

LeafSet ==
    {Leaf("operand", I32), Leaf("operand", F32),
     Leaf("attr", PositiveAttr), Leaf("attr", OperandAttr),
     Leaf("prop", NonNegProp), Leaf("prop", GenericProp)}

\* The sequences over S of length at most n.
SeqsUpTo(S, n) == UNION {[1..k -> S] : k \in 0..n}

\* ArrayRef<const Record *> opDefs: emitOpConstraints reads opDefs[0].
OpDefArrays == SeqsUpTo(OpSet, MaxOps) \ {<<>>}
LeafArrays == SeqsUpTo(LeafSet, MaxLeaves)

\* RecordKeeper::getInputFilename and the tag of the constructor.
InputFilenames ==
    {<<"f", "o", "o", ".", "t", "d">>,
     <<"b", "a", "r", ".", "t", "d">>,
     <<"d", "/", "f", "o", "o", ".", "t", "d">>,
     <<"a", "-", "b", ".", "t", "d">>,
     <<"a", "2", "D", "b", ".", "t", "d">>}
Tags == {<<>>, <<"r", "w">>}

\* ------------------------------------------------------------------ state

Emitters == {1, 2}

VARIABLES
    inputFilename,          \* per emitter: the records' input file name
    tag,                    \* per emitter: the constructor's tag
    uniqueOutputLabel,      \* per emitter
    typeConstraints,        \* per emitter: sequence of [first, second]
    attrConstraints,
    propConstraints,
    successorConstraints,
    regionConstraints,
    os,                     \* per emitter: the pieces of text written so far
    ret,                    \* what the last lookup returned, or NoCall
    sites,                  \* per emitter: the collectConstraint calls so far
    script,                 \* SpecDet: the calls of the fixed ordered input
    pos                     \* SpecDet: per emitter, how many calls it has run

vars == <<inputFilename, tag, uniqueOutputLabel, typeConstraints, attrConstraints,
          propConstraints, successorConstraints, regionConstraints, os, ret,
          sites, script, pos>>

maps == <<typeConstraints, attrConstraints, propConstraints, successorConstraints,
          regionConstraints>>

\* ------------------------------------------------------------------ registries

\* ConstraintMap: the entries in insertion order, each [first, second].
Keys(map) == {map[i].first : i \in DOMAIN map}
Names(map) == {map[i].second : i \in DOMAIN map}
Contains(map, c) == c \in Keys(map)
\* map.find(c)->second, for a constraint the map holds.
Find(map, c) == map[CHOOSE i \in DOMAIN map : map[i].first = c].second

KindText(kind) ==
    CASE kind = "type" -> <<"t", "y", "p", "e">>
      [] kind = "attr" -> <<"a", "t", "t", "r">>
      [] kind = "prop" -> <<"p", "r", "o", "p">>
      [] kind = "successor" -> <<"s", "u", "c", "c", "e", "s", "s", "o", "r">>
      [] kind = "region" -> <<"r", "e", "g", "i", "o", "n">>

Kinds == {"type", "attr", "prop", "successor", "region"}

NamePrefix ==
    <<"_", "_", "m", "l", "i", "r", "_", "o", "d", "s", "_", "l", "o", "c", "a", "l", "_">>
NameInfix == <<"_", "c", "o", "n", "s", "t", "r", "a", "i", "n", "t", "_">>

\* The name without the kind.
getUniqueName_noKind(e, kind, index) ==
    NamePrefix \o NameInfix \o uniqueOutputLabel[e] \o utostr(index)

\* The name numbered by a counter that all emitters of the process share.
getUniqueName_shared(e, kind, index) ==
    NamePrefix \o KindText(kind) \o NameInfix \o uniqueOutputLabel[e]
        \o utostr(index + Len(typeConstraints[3 - e]) + Len(attrConstraints[3 - e])
                        + Len(propConstraints[3 - e]))

\* The name numbered by a counter that the kinds of one emitter share: the
\* ordinal of every kind but the first goes on from the type registry.
getUniqueName_acrossKinds(e, kind, index) ==
    NamePrefix \o KindText(kind) \o NameInfix \o uniqueOutputLabel[e]
        \o utostr(IF kind = "type" THEN index ELSE index + Len(typeConstraints[e]))

getUniqueName(e, kind, index) ==
    NamePrefix \o KindText(kind) \o NameInfix \o uniqueOutputLabel[e] \o utostr(index)

\* A registration that inserts again a constraint the map already holds.
collectConstraint_reinsert(e, map, kind, constraint) ==
    Append(map, [first |-> constraint,
                 second |-> getUniqueName(e, kind, Len(map) + 1)])

\* A registration that makes the name from the size of the map before the
\* insertion.
collectConstraint_sizeBefore(e, map, kind, constraint) ==
    IF Contains(map, constraint) THEN map
    ELSE Append(map, [first |-> constraint,
                      second |-> getUniqueName(e, kind, Len(map))])

\* A registration that puts the new entry in front of the entries of the map.
collectConstraint_prepend(e, map, kind, constraint) ==
    IF Contains(map, constraint) THEN map
    ELSE <<[first |-> constraint,
            second |-> getUniqueName(e, kind, Len(map) + 1)]>> \o map

\* try_emplace appends a new entry when the key is absent; the name is made
\* from the size of the map after the insertion.
collectConstraint(e, map, kind, constraint) ==
    IF Contains(map, constraint) THEN map
    ELSE Append(map, [first |-> constraint,
                      second |-> getUniqueName(e, kind, Len(map) + 1)])

RECURSIVE CollectAll(_, _, _, _)
\* collectConstraint on each constraint of cs, in order.
CollectAll(e, map, kind, cs) ==
    IF cs = <<>> THEN map
    ELSE CollectAll(e, collectConstraint(e, map, kind, Head(cs)), kind, Tail(cs))

\* ------------------------------------------------------------------ eligibility

\* An eligibility test that accepts every attribute constraint.
canUniqueAttrConstraint_always(attr) == TRUE

canUniqueAttrConstraint(attr) ==
    LET test == tgfmt(attr.conditionTemplate, OpCtx("attr"))
    IN  ~ContainsMarker(test)

\* An eligibility test that accepts every property constraint.
canUniquePropConstraint_always(prop) == TRUE

\* An eligibility test that does not ask for an interface type.
canUniquePropConstraint_noInterface(prop) ==
    LET test == tgfmt(prop.conditionTemplate, OpCtx("prop"))
    IN  /\ ~ContainsMarker(test)
        /\ test # <<"true">>

canUniquePropConstraint(prop) ==
    LET test == tgfmt(prop.conditionTemplate, OpCtx("prop"))
    IN  /\ ~ContainsMarker(test)
        /\ test # <<"true">>
        /\ prop.interfaceType # <<>>

\* ------------------------------------------------------------------ collection

ConstraintsOf(s) == [i \in DOMAIN s |-> s[i].constraint]

\* The constraints one operation hands to collectConstraint, per kind, in the
\* order of the loops of collectOpConstraints.
OpTypeConstraints(op) ==
    ConstraintsOf(SelectSeq(op.operands, LAMBDA v : v.hasPredicate))
        \o ConstraintsOf(SelectSeq(op.results, LAMBDA v : v.hasPredicate))

\* The attribute loop without the test for derived attributes.
OpAttrConstraints_derivedToo(op) ==
    LET kept == SelectSeq(op.attributes,
                          LAMBDA a : /\ ~a.predicateIsNull
                                     /\ canUniqueAttrConstraint(a.attr))
    IN  [i \in DOMAIN kept |-> kept[i].attr]

OpAttrConstraints(op) ==
    LET kept == SelectSeq(op.attributes,
                          LAMBDA a : /\ ~a.predicateIsNull
                                     /\ ~a.isDerivedAttr
                                     /\ canUniqueAttrConstraint(a.attr))
    IN  [i \in DOMAIN kept |-> kept[i].attr]

OpPropConstraints(op) ==
    LET kept == SelectSeq(op.properties,
                          LAMBDA p : /\ ~p.predicateIsNull
                                     /\ canUniquePropConstraint(p.prop))
    IN  [i \in DOMAIN kept |-> kept[i].prop]

OpSuccessorConstraints(op) ==
    ConstraintsOf(SelectSeq(op.successors, LAMBDA x : ~x.predicateIsNull))

OpRegionConstraints(op) ==
    ConstraintsOf(SelectSeq(op.regions, LAMBDA x : ~x.predicateIsNull))

\* The constraints of one kind handed to collectConstraint by the loop over
\* opDefs.
OpConstraints(kind, opDefs) ==
    Concat([i \in DOMAIN opDefs |->
        CASE kind = "type" -> OpTypeConstraints(opDefs[i])
          [] kind = "attr" -> OpAttrConstraints(opDefs[i])
          [] kind = "prop" -> OpPropConstraints(opDefs[i])
          [] kind = "successor" -> OpSuccessorConstraints(opDefs[i])
          [] kind = "region" -> OpRegionConstraints(opDefs[i])])

\* The constraints of one kind handed to collectConstraint by the loop over
\* the leaves: an operand matcher registers a type constraint.
LeafConstraints(kind, leaves) ==
    LET matcher == IF kind = "type" THEN "operand" ELSE kind
    IN  ConstraintsOf(SelectSeq(leaves, LAMBDA l : l.matcher = matcher))

SitesOf(site, kind, cs) == {<<site, kind, cs[i]>> : i \in DOMAIN cs}

\* The registry of one kind of one emitter.
MapOf(e, kind) ==
    CASE kind = "type" -> typeConstraints[e]
      [] kind = "attr" -> attrConstraints[e]
      [] kind = "prop" -> propConstraints[e]
      [] kind = "successor" -> successorConstraints[e]
      [] kind = "region" -> regionConstraints[e]

\* The five registries of emitter e after collectConstraint on the
\* constraints cs[kind] of each kind.
Collected(e, cs) ==
    /\ typeConstraints' =
         [typeConstraints EXCEPT ![e] = CollectAll(e, @, "type", cs["type"])]
    /\ attrConstraints' =
         [attrConstraints EXCEPT ![e] = CollectAll(e, @, "attr", cs["attr"])]
    /\ propConstraints' =
         [propConstraints EXCEPT ![e] = CollectAll(e, @, "prop", cs["prop"])]
    /\ successorConstraints' =
         [successorConstraints EXCEPT
            ![e] = CollectAll(e, @, "successor", cs["successor"])]
    /\ regionConstraints' =
         [regionConstraints EXCEPT ![e] = CollectAll(e, @, "region", cs["region"])]

\* The loop of collectOpConstraints over opDefs.
CollectOps(e, opDefs) ==
    /\ Collected(e, [kind \in Kinds |-> OpConstraints(kind, opDefs)])
    /\ sites' = [sites EXCEPT ![e] =
                   @ \cup UNION {SitesOf("op", k, OpConstraints(k, opDefs)) : k \in Kinds}]

\* collectPatternConstraints(constraints): every leaf is registered under the
\* kind of its matcher; no leaf is filtered.
collectPatternConstraints(e, leaves) ==
    /\ Collected(e, [kind \in Kinds |->
            IF kind \in {"type", "attr", "prop"} THEN LeafConstraints(kind, leaves)
            ELSE <<>>])
    /\ sites' = [sites EXCEPT ![e] =
                   @ \cup UNION {SitesOf("leaf", k, LeafConstraints(k, leaves)) :
                                   k \in {"type", "attr", "prop"}}]

\* ------------------------------------------------------------------ emission

\* One piece of text written to os: formatv(code, name, cond, summary, param),
\* a generic-type declaration, or a line of the namespace block.
Piece(code, name, cond, summary, param) ==
    [code |-> code, name |-> name, cond |-> cond, summary |-> summary, param |-> param]

OpCodes == {"typeConstraintCode", "attrConstraintCode", "propConstraintCode",
            "successorConstraintCode", "regionConstraintCode"}
IsRoutine(p) == p.code \in OpCodes \cup {"patternConstraintCode"}

\* An emission loop that skips the last entry of the map.
emitConstraints_skipLast(constraints, selfName, codeTemplate) ==
    [i \in 1..(Len(constraints) - 1) |->
        Piece(codeTemplate, constraints[i].second,
              tgfmt(constraints[i].first.conditionTemplate, OpCtx(selfName)),
              escapeString(constraints[i].first.summary), <<>>)]

emitConstraints(constraints, selfName, codeTemplate) ==
    [i \in DOMAIN constraints |->
        Piece(codeTemplate, constraints[i].second,
              tgfmt(constraints[i].first.conditionTemplate, OpCtx(selfName)),
              escapeString(constraints[i].first.summary), <<>>)]

emitTypeConstraints(e) ==
    emitConstraints(typeConstraints[e], "type", "typeConstraintCode")

emitAttrConstraints(e) ==
    emitConstraints(attrConstraints[e], "attr", "attrConstraintCode")

emitPropConstraints(e) ==
    [i \in DOMAIN propConstraints[e] |->
        LET it == propConstraints[e][i]
        IN  Piece("propConstraintCode", it.second,
                  tgfmt(it.first.conditionTemplate, OpCtx("prop")),
                  escapeString(it.first.summary), it.first.interfaceType)]

emitSuccessorConstraints(e) ==
    emitConstraints(successorConstraints[e], "successor", "successorConstraintCode")

emitRegionConstraints(e) ==
    emitConstraints(regionConstraints[e], "region", "regionConstraintCode")

\* NamespaceEmitter: opens the namespace block when constructed and closes it
\* when destroyed; an empty namespace writes nothing.
NamespaceOpen(ns) ==
    IF ns = <<>> THEN <<>> ELSE <<Piece("namespace_open", ns, <<>>, <<>>, <<>>)>>
NamespaceClose(ns) ==
    IF ns = <<>> THEN <<>> ELSE <<Piece("namespace_close", ns, <<>>, <<>>, <<>>)>>

\* What emitOpConstraints writes, with the attribute routines first.
OpConstraintsText_attrFirst(e, opDefs) ==
    LET ns == opDefs[1].cppNamespace
    IN  NamespaceOpen(ns) \o emitAttrConstraints(e) \o emitTypeConstraints(e)
          \o emitPropConstraints(e) \o emitSuccessorConstraints(e)
          \o emitRegionConstraints(e) \o NamespaceClose(ns)

\* What emitOpConstraints(opDefs) writes.
OpConstraintsText(e, opDefs) ==
    LET ns == opDefs[1].cppNamespace
    IN  NamespaceOpen(ns) \o emitTypeConstraints(e) \o emitAttrConstraints(e)
          \o emitPropConstraints(e) \o emitSuccessorConstraints(e)
          \o emitRegionConstraints(e) \o NamespaceClose(ns)

\* The loops of emitPatternConstraints() without the generic-type declaration.
PatternText_noDeclaration(types, attrs, props) ==
    [i \in DOMAIN types |->
        Piece("patternConstraintCode", types[i].second,
              tgfmt(types[i].first.conditionTemplate, PatternCtx("type")),
              escapeString(types[i].first.summary), <<"::mlir::Type type">>)]
    \o
    [i \in DOMAIN attrs |->
        Piece("patternConstraintCode", attrs[i].second,
              tgfmt(attrs[i].first.conditionTemplate, PatternCtx("attr")),
              escapeString(attrs[i].first.summary), <<"::mlir::Attribute attr">>)]
    \o
    [i \in DOMAIN props |->
        Piece("patternConstraintCode", props[i].second,
              tgfmt(props[i].first.conditionTemplate, PatternCtx("prop")),
              escapeString(props[i].first.summary),
              (IF props[i].first.interfaceType = <<>> THEN <<"T">>
               ELSE props[i].first.interfaceType) \o <<" prop">>)]

\* What the loops of emitPatternConstraints() write over the registries given.
PatternText(types, attrs, props) ==
    [i \in DOMAIN types |->
        Piece("patternConstraintCode", types[i].second,
              tgfmt(types[i].first.conditionTemplate, PatternCtx("type")),
              escapeString(types[i].first.summary), <<"::mlir::Type type">>)]
    \o
    [i \in DOMAIN attrs |->
        Piece("patternConstraintCode", attrs[i].second,
              tgfmt(attrs[i].first.conditionTemplate, PatternCtx("attr")),
              escapeString(attrs[i].first.summary), <<"::mlir::Attribute attr">>)]
    \o
    Concat([i \in DOMAIN props |->
        LET it == props[i]
            generic == it.first.interfaceType = <<>>
            interfaceType == IF generic THEN <<"T">> ELSE it.first.interfaceType
        IN  (IF generic
             THEN <<Piece("template <typename T>", <<>>, <<>>, <<>>, <<>>)>>
             ELSE <<>>)
            \o <<Piece("patternConstraintCode", it.second,
                       tgfmt(it.first.conditionTemplate, PatternCtx("prop")),
                       escapeString(it.first.summary),
                       interfaceType \o <<" prop">>)>>])

\* ------------------------------------------------------------------ lookups

NoCall == [fn |-> "none", e |-> 0, arg |-> <<>>, outcome |-> "none", text |-> <<>>]
Result(fn, e, c, outcome, text) ==
    [fn |-> fn, e |-> e, arg |-> c, outcome |-> outcome, text |-> text]

\* The process has ended: a failed assertion aborts it, a wild read may crash it.
Ended == ret.outcome \in {"abort", "crash"}

\* What a read through the end iterator can yield where assertions are
\* compiled out: whatever text lies behind the entries (here: an empty text
\* or the name of an entry of the map), or a crash.
WildReads(map) ==
    {<<"returned", t>> : t \in Names(map) \cup {<<>>}} \cup {<<"crash", <<>>>>}

\* find, assert(it != end), return it->second: the outcomes of the builds with
\* and without assertions.
AssertedFind(e, map, c) ==
    IF Contains(map, c) THEN {<<"returned", Find(map, c)>>}
    ELSE {<<"abort", <<>>>>} \cup WildReads(map)

\* find, return the name or std::nullopt.
OptionalFind(map, c) ==
    IF Contains(map, c) THEN {<<"returned", Find(map, c)>>}
    ELSE {<<"absent", <<>>>>}

\* A lookup is called while no call is in progress; ret holds what it returns
\* until the caller takes it.
Lookup(fn, e, c, outcomes) ==
    /\ ret = NoCall
    /\ \E o \in outcomes : ret' = Result(fn, e, c, o[1], o[2])
    /\ UNCHANGED <<inputFilename, tag, uniqueOutputLabel, maps, os, sites, script, pos>>

getTypeConstraintFn(e, c) ==
    Lookup("getTypeConstraintFn", e, c, AssertedFind(e, typeConstraints[e], c))

getAttrConstraintFn(e, c) ==
    Lookup("getAttrConstraintFn", e, c, OptionalFind(attrConstraints[e], c))

getPropConstraintFn(e, c) ==
    Lookup("getPropConstraintFn", e, c, OptionalFind(propConstraints[e], c))

getSuccessorConstraintFn(e, c) ==
    Lookup("getSuccessorConstraintFn", e, c,
           AssertedFind(e, successorConstraints[e], c))

getRegionConstraintFn(e, c) ==
    Lookup("getRegionConstraintFn", e, c, AssertedFind(e, regionConstraints[e], c))

\* ------------------------------------------------------------------ calls

\* The state of emitter e after each public call; what the call leaves alone
\* of the emitter is stated here, the rest by the action that makes the call.
DoCollectOpConstraints(e, opDefs) ==
    /\ CollectOps(e, opDefs)
    /\ UNCHANGED os

\* An operation pass that first collects the constraints of its operations.
DoEmitOpConstraints_collecting(e, opDefs) ==
    /\ Len(os[e]) < MaxOutput
    /\ CollectOps(e, opDefs)
    /\ os' = [os EXCEPT ![e] = @ \o OpConstraintsText(e, opDefs)]

DoEmitOpConstraints(e, opDefs) ==
    /\ Len(os[e]) < MaxOutput
    /\ os' = [os EXCEPT ![e] = @ \o OpConstraintsText(e, opDefs)]
    /\ UNCHANGED <<maps, sites>>

\* A pattern call that writes the routines of the entries it has just
\* registered and not those of the entries the registries held before.
DoEmitPatternConstraints_newOnly(e, leaves) ==
    /\ Len(os[e]) < MaxOutput
    /\ collectPatternConstraints(e, leaves)
    /\ os' = [os EXCEPT ![e] = @ \o PatternText(
                 SubSeq(typeConstraints'[e], Len(typeConstraints[e]) + 1,
                        Len(typeConstraints'[e])),
                 SubSeq(attrConstraints'[e], Len(attrConstraints[e]) + 1,
                        Len(attrConstraints'[e])),
                 SubSeq(propConstraints'[e], Len(propConstraints[e]) + 1,
                        Len(propConstraints'[e])))]

DoEmitPatternConstraints(e, leaves) ==
    /\ Len(os[e]) < MaxOutput
    /\ collectPatternConstraints(e, leaves)
    /\ os' = [os EXCEPT ![e] = @ \o PatternText(typeConstraints'[e],
                                                attrConstraints'[e],
                                                propConstraints'[e])]

Frame == UNCHANGED <<inputFilename, tag, uniqueOutputLabel, ret, script, pos>>

\* The caller takes the result of a lookup that returned.
TakeResult ==
    /\ ret # NoCall
    /\ ~Ended
    /\ ret' = NoCall
    /\ UNCHANGED <<inputFilename, tag, uniqueOutputLabel, maps, os, sites, script, pos>>

collectOpConstraints(e, opDefs) ==
    /\ ret = NoCall
    /\ DoCollectOpConstraints(e, opDefs)
    /\ Frame

emitOpConstraints(e, opDefs) ==
    /\ ret = NoCall
    /\ DoEmitOpConstraints(e, opDefs)
    /\ Frame

emitPatternConstraints(e, leaves) ==
    /\ ret = NoCall
    /\ DoEmitPatternConstraints(e, leaves)
    /\ Frame

\* ------------------------------------------------------------------ specifications

\* The emitters after construction: the label is made, nothing is registered,
\* nothing is written.
Constructed(files, tags) ==
    /\ inputFilename = files
    /\ tag = tags
    /\ uniqueOutputLabel = [e \in Emitters |-> getUniqueOutputLabel(files[e], tags[e])]
    /\ typeConstraints = [e \in Emitters |-> <<>>]
    /\ attrConstraints = [e \in Emitters |-> <<>>]
    /\ propConstraints = [e \in Emitters |-> <<>>]
    /\ successorConstraints = [e \in Emitters |-> <<>>]
    /\ regionConstraints = [e \in Emitters |-> <<>>]
    /\ os = [e \in Emitters |-> <<>>]
    /\ sites = [e \in Emitters |-> {}]
    /\ ret = NoCall
    /\ script = <<>>
    /\ pos = [e \in Emitters |-> 0]

FooTd == <<"f", "o", "o", ".", "t", "d">>
BarTd == <<"b", "a", "r", ".", "t", "d">>

ABTd == <<"a", "-", "b", ".", "t", "d">>

\* One emitter at work (emitter 1), the other stays as constructed: the
\* collection and emission calls and the lookups of the other generators.
Init == Constructed([e \in Emitters |-> ABTd], [e \in Emitters |-> <<>>])

Next ==
    \/ \E opDefs \in OpDefArrays : collectOpConstraints(1, opDefs)
    \/ \E opDefs \in OpDefArrays : emitOpConstraints(1, opDefs)
    \/ \E leaves \in LeafArrays : emitPatternConstraints(1, leaves)
    \/ \E c \in TypeConstraintSet : getTypeConstraintFn(1, c)
    \/ \E c \in AttrConstraintSet : getAttrConstraintFn(1, c)
    \/ \E c \in PropConstraintSet : getPropConstraintFn(1, c)
    \/ \E c \in SuccessorConstraintSet : getSuccessorConstraintFn(1, c)
    \/ \E c \in RegionConstraintSet : getRegionConstraintFn(1, c)
    \/ TakeResult

Spec == Init /\ [][Next]_vars

\* Two emitters of one process, built over any two input files and tags, each
\* collecting the constraints of operations.
InitIso ==
    \E files \in [Emitters -> InputFilenames], tags \in [Emitters -> Tags] :
        Constructed(files, tags)

NextIso ==
    \E e \in Emitters : \E opDefs \in OpDefArrays : collectOpConstraints(e, opDefs)

SpecIso == InitIso /\ [][NextIso]_vars

\* Two runs over the same ordered input: the emitters are built alike, and
\* each makes the calls of the script in order; the run that is ahead chooses
\* the next call of the script.
Call(fn, arg) == [fn |-> fn, arg |-> arg]

DetCalls ==
    {Call("collectOpConstraints", a) : a \in {<<OpA>>, <<OpB>>, <<OpB, OpA>>}}
    \cup {Call("emitOpConstraints", a) : a \in {<<OpA>>, <<OpB>>}}
    \cup {Call("emitPatternConstraints", a) :
            a \in {<<>>, <<Leaf("operand", F32)>>, <<Leaf("attr", PositiveAttr)>>,
                   <<Leaf("prop", GenericProp), Leaf("operand", I32)>>}}

InitDet ==
    \E f \in {FooTd, ABTd} :
        Constructed([e \in Emitters |-> f], [e \in Emitters |-> <<"r", "w">>])

RunCall(e, call) ==
    /\ IF pos[e] < Len(script)
       THEN call = script[pos[e] + 1] /\ script' = script
       ELSE Len(script) < MaxScript /\ script' = Append(script, call)
    /\ pos' = [pos EXCEPT ![e] = @ + 1]
    /\ \/ call.fn = "collectOpConstraints" /\ DoCollectOpConstraints(e, call.arg)
       \/ call.fn = "emitOpConstraints" /\ DoEmitOpConstraints(e, call.arg)
       \/ call.fn = "emitPatternConstraints" /\ DoEmitPatternConstraints(e, call.arg)
    /\ UNCHANGED <<inputFilename, tag, uniqueOutputLabel, ret>>

NextDet == \E e \in Emitters : \E call \in DetCalls : RunCall(e, call)

SpecDet == InitDet /\ [][NextDet]_vars

\* ------------------------------------------------------------------ properties

NoDuplicateKeys(map) == \A i, j \in DOMAIN map : map[i].first = map[j].first => i = j
Marked(c, selfName) == ContainsMarker(tgfmt(c.conditionTemplate, OpCtx(selfName)))
AllNames(e) == UNION {Names(MapOf(e, k)) : k \in Kinds}

\* C1. Idempotent registration: in every reachable state and for every kind,
\* registering a constraint the registry already holds gives back the very
\* same registry (same size, same names), and no registry holds a constraint
\* twice, however many call sites handed it in.
C1_IdempotentRegistration ==
    \A k \in Kinds :
        /\ NoDuplicateKeys(MapOf(1, k))
        /\ \A c \in Keys(MapOf(1, k)) :
               collectConstraint(1, MapOf(1, k), k, c) = MapOf(1, k)

\* An attribute constraint handed in by an operation and by a pattern leaf,
\* and by nothing else: the registry holds one entry.
C1_Witness ==
    /\ <<"op", "attr", PositiveAttr>> \in sites[1]
    /\ <<"leaf", "attr", PositiveAttr>> \in sites[1]
    /\ Len(attrConstraints[1]) = 1

\* The emitter is as constructed. The name generator reads the label alone,
\* which no call changes, so what holds of it there holds throughout.
Untouched(e) == \A k \in Kinds : MapOf(e, k) = <<>>

\* C2. Uniqueness: within one emitter, two different constraints of one kind
\* never have the same name, no name occurs in two registries, and the name
\* generator gives different names to different (kind, ordinal) pairs.
C2_Uniqueness ==
    /\ \A k \in Kinds : \A i, j \in DOMAIN MapOf(1, k) :
           MapOf(1, k)[i].second = MapOf(1, k)[j].second => i = j
    /\ \A k1, k2 \in Kinds : k1 # k2 => Names(MapOf(1, k1)) \cap Names(MapOf(1, k2)) = {}
    /\ Untouched(1) =>
           \A k1, k2 \in Kinds : \A i, j \in 1..MaxOrdinal :
               getUniqueName(1, k1, i) = getUniqueName(1, k2, j) => (k1 = k2 /\ i = j)

\* Two kinds with entries, one of them with two.
C2_Witness ==
    /\ Len(typeConstraints[1]) = 2
    /\ Len(attrConstraints[1]) = 2
    /\ Len(propConstraints[1]) >= 1

BaseName(f) == consume_back(filename(f), <<".", "t", "d">>)

\* C3. Cross-instance isolation, as claimed: two emitters whose base names
\* differ or whose tags differ never generate a common name.
C3_CrossInstanceIsolation ==
    (BaseName(inputFilename[1]) # BaseName(inputFilename[2]) \/ tag[1] # tag[2])
        => AllNames(1) \cap AllNames(2) = {}

\* C4. Scope isolation of foo.td and bar.td under one tag: the registries of
\* the two emitters hold no common name, and the name generators of the two
\* emitters give no common name for any kinds and ordinals.
C4_ScopeIsolation ==
    (inputFilename[1] = FooTd /\ inputFilename[2] = BarTd /\ tag[1] = tag[2])
        => /\ AllNames(1) \cap AllNames(2) = {}
           /\ (Untouched(1) /\ Untouched(2)) =>
                  \A k1, k2 \in Kinds : \A i, j \in 1..MaxOrdinal :
                      getUniqueName(1, k1, i) # getUniqueName(2, k2, j)

\* foo.td and bar.td under a non-empty tag, both emitters with entries of
\* every kind.
C4_Witness ==
    /\ inputFilename[1] = FooTd /\ inputFilename[2] = BarTd
    /\ tag[1] = tag[2] /\ tag[1] # <<>>
    /\ \A e \in Emitters : \A k \in Kinds : MapOf(e, k) # <<>>

IsLookupOf(fn, c) == ret.fn = fn /\ ret.arg = c

MapAfter(e, kind) ==
    CASE kind = "type" -> typeConstraints'[e]
      [] kind = "attr" -> attrConstraints'[e]
      [] kind = "prop" -> propConstraints'[e]
      [] kind = "successor" -> successorConstraints'[e]
      [] kind = "region" -> regionConstraints'[e]

\* What a step appends to the output of emitter 1.
Written == SubSeq(os'[1], Len(os[1]) + 1, Len(os'[1]))

\* The kind of registry a routine was written for.
PieceKind(p) ==
    CASE p.code = "typeConstraintCode" -> "type"
      [] p.code = "attrConstraintCode" -> "attr"
      [] p.code = "propConstraintCode" -> "prop"
      [] p.code = "successorConstraintCode" -> "successor"
      [] p.code = "regionConstraintCode" -> "region"
      [] p.code = "patternConstraintCode" /\ p.param = <<"::mlir::Type type">> -> "type"
      [] p.code = "patternConstraintCode" /\ p.param = <<"::mlir::Attribute attr">>
            -> "attr"
      [] OTHER -> "prop"

\* The names of the routines of one kind among the pieces, in their order.
RoutineNames(pieces, k) ==
    LET rs == SelectSeq(pieces, LAMBDA p : IsRoutine(p) /\ PieceKind(p) = k)
    IN  [i \in DOMAIN rs |-> rs[i].name]

\* The kinds an emission pass walks, told from what it wrote.
PassKinds(pieces) ==
    IF \E i \in DOMAIN pieces :
           pieces[i].code \in {"patternConstraintCode", "template <typename T>"}
    THEN {"type", "attr", "prop"}
    ELSE Kinds

Injective(s) == \A i, j \in DOMAIN s : s[i] = s[j] => i = j

\* C6. Collect-before-emit: in every step that writes, every routine written
\* carries the name of an entry that the registry of its kind holds when the
\* emission pass starts (the pass changes no registry), each entry of a kind
\* the pass walks gets exactly one routine, and no routine is written for a
\* kind the pass does not walk.
C6_CollectBeforeEmit ==
    [][os'[1] # os[1] =>
         \A k \in Kinds :
             LET names == RoutineNames(Written, k)
             IN  IF k \in PassKinds(Written)
                 THEN /\ Injective(names)
                      /\ Range(names) = Names(MapAfter(1, k))
                 ELSE names = <<>>]_vars

\* The output holds the routines of an operation pass and of a pattern pass.
C6_Witness ==
    /\ \E i \in DOMAIN os[1] : os[1][i].code = "typeConstraintCode"
    /\ \E i \in DOMAIN os[1] : os[1][i].code = "attrConstraintCode"
    /\ \E i \in DOMAIN os[1] : os[1][i].code = "patternConstraintCode"

KindRank(k) ==
    CASE k = "type" -> 1 [] k = "attr" -> 2 [] k = "prop" -> 3
      [] k = "successor" -> 4 [] k = "region" -> 5

\* The place of a name in a registry, 0 when the registry does not hold it.
PlaceOf(map, name) ==
    IF name \in Names(map) THEN CHOOSE i \in DOMAIN map : map[i].second = name ELSE 0

\* C7. Emission order: every step only appends to each registry, so that the
\* order of a registry is the order of first registration; and in every step
\* that writes, the routines come kind after kind (type, attribute, property,
\* successor, region) and, within a kind, in the order of the registry.
C7_EmissionOrder ==
    [][/\ \A k \in Kinds : IsPrefix(MapOf(1, k), MapAfter(1, k))
       /\ os'[1] # os[1] =>
            LET rs == SelectSeq(Written, IsRoutine)
            IN  \A i, j \in DOMAIN rs :
                    i < j =>
                        \/ KindRank(PieceKind(rs[i])) < KindRank(PieceKind(rs[j]))
                        \/ /\ PieceKind(rs[i]) = PieceKind(rs[j])
                           /\ PlaceOf(MapAfter(1, PieceKind(rs[i])), rs[i].name)
                                < PlaceOf(MapAfter(1, PieceKind(rs[j])), rs[j].name)]_vars

\* An operation pass has written two type routines and routines of three
\* more kinds, and a pattern pass has written a property routine.
C7_Witness ==
    /\ Cardinality({i \in DOMAIN os[1] : os[1][i].code = "typeConstraintCode"}) >= 2
    /\ \E i \in DOMAIN os[1] : os[1][i].code = "attrConstraintCode"
    /\ \E i \in DOMAIN os[1] : os[1][i].code = "successorConstraintCode"
    /\ \E i \in DOMAIN os[1] : os[1][i].code = "regionConstraintCode"
    /\ \E i \in DOMAIN os[1] :
           os[1][i].code = "patternConstraintCode" /\ PieceKind(os[1][i]) = "prop"

\* The attribute routine an operation pass, or a pattern pass, renders from c.
IsOpAttrRoutineOf(p, c) ==
    /\ p.code = "attrConstraintCode"
    /\ p.cond = tgfmt(c.conditionTemplate, OpCtx("attr"))
    /\ p.summary = escapeString(c.summary)
IsPatternAttrRoutineOf(p, c) ==
    /\ p.code = "patternConstraintCode"
    /\ p.param = <<"::mlir::Attribute attr">>
    /\ p.cond = tgfmt(c.conditionTemplate, PatternCtx("attr"))
    /\ p.summary = escapeString(c.summary)

\* C8. Sharing across call sites: an attribute constraint collected both from
\* an operation's attribute and from a pattern attribute leaf has exactly one
\* entry in the attribute registry, and every routine rendered from it, by an
\* operation pass or by a pattern pass, carries the name of that entry.
C8_SharingAcrossCallSites ==
    \A c \in AttrConstraintSet :
        (<<"op", "attr", c>> \in sites[1] /\ <<"leaf", "attr", c>> \in sites[1]) =>
            /\ Cardinality({i \in DOMAIN attrConstraints[1] :
                              attrConstraints[1][i].first = c}) = 1
            /\ \A i \in DOMAIN os[1] :
                   (IsOpAttrRoutineOf(os[1][i], c) \/ IsPatternAttrRoutineOf(os[1][i], c))
                       => os[1][i].name = Find(attrConstraints[1], c)

\* The shared constraint was collected at both sites and both passes have
\* written its routine.
C8_Witness ==
    /\ <<"op", "attr", PositiveAttr>> \in sites[1]
    /\ <<"leaf", "attr", PositiveAttr>> \in sites[1]
    /\ \E i \in DOMAIN os[1] : IsOpAttrRoutineOf(os[1][i], PositiveAttr)
    /\ \E i \in DOMAIN os[1] : IsPatternAttrRoutineOf(os[1][i], PositiveAttr)

AssertedLookups ==
    {"getTypeConstraintFn", "getSuccessorConstraintFn", "getRegionConstraintFn"}
OptionalLookups == {"getAttrConstraintFn", "getPropConstraintFn"}
LookupMap(fn) ==
    CASE fn = "getTypeConstraintFn" -> typeConstraints[ret.e]
      [] fn = "getAttrConstraintFn" -> attrConstraints[ret.e]
      [] fn = "getPropConstraintFn" -> propConstraints[ret.e]
      [] fn = "getSuccessorConstraintFn" -> successorConstraints[ret.e]
      [] fn = "getRegionConstraintFn" -> regionConstraints[ret.e]

\* C9. Lookup contract, as claimed: a lookup of a registered constraint
\* returns its name; a type, successor or region lookup of an unregistered
\* constraint ends in the failed assertion; an attribute or property lookup of
\* an unregistered constraint returns absent.
C9_LookupContract ==
    ret # NoCall =>
        IF Contains(LookupMap(ret.fn), ret.arg)
        THEN ret.outcome = "returned" /\ ret.text = Find(LookupMap(ret.fn), ret.arg)
        ELSE IF ret.fn \in AssertedLookups THEN ret.outcome = "abort"
             ELSE ret.outcome = "absent"

IsPatternPass ==
    \E i \in DOMAIN Written :
        Written[i].code \in {"patternConstraintCode", "template <typename T>"}

IsGenericDeclaration(p) == p.code = "template <typename T>"

\* The places of the routine named name among the pieces.
PlacesOf(pieces, name) ==
    {i \in DOMAIN pieces : IsRoutine(pieces[i]) /\ pieces[i].name = name}

\* C11. Property generic fallback: in every pattern pass, each entry of the
\* property registry gets exactly one routine; for an entry whose interface
\* type is empty the piece written immediately before the routine is the
\* generic-type declaration and the parameter is "T prop"; for an entry with
\* an interface type the parameter is that type and no declaration precedes
\* the routine; and no declaration is written anywhere else.
C11_PropertyGenericFallback ==
    [][IsPatternPass =>
         /\ \A j \in DOMAIN propConstraints'[1] :
                LET it == propConstraints'[1][j]
                    at == PlacesOf(Written, it.second)
                IN  /\ Cardinality(at) = 1
                    /\ \A i \in at :
                           IF it.first.interfaceType = <<>>
                           THEN /\ Written[i].param = <<"T", " prop">>
                                /\ i > 1
                                /\ IsGenericDeclaration(Written[i - 1])
                           ELSE /\ Written[i].param =
                                     it.first.interfaceType \o <<" prop">>
                                /\ i > 1 => ~IsGenericDeclaration(Written[i - 1])
         /\ Cardinality({i \in DOMAIN Written : IsGenericDeclaration(Written[i])})
              = Cardinality({j \in DOMAIN propConstraints'[1] :
                               propConstraints'[1][j].first.interfaceType = <<>>})]_vars

\* A pattern pass has written the declaration and the generic routine, and
\* right after it the routine of a property constraint with an interface type.
C11_Witness ==
    \E i \in DOMAIN os[1] :
        /\ i + 2 \in DOMAIN os[1]
        /\ IsGenericDeclaration(os[1][i])
        /\ os[1][i + 1].code = "patternConstraintCode"
        /\ os[1][i + 1].param = <<"T", " prop">>
        /\ os[1][i + 2].code = "patternConstraintCode"
        /\ os[1][i + 2].param = NonNegProp.interfaceType \o <<" prop">>

\* The ordinal a name of emitter e and of a kind was made from.
HasOrdinal(e, kind, name, index) == name = getUniqueName(e, kind, index)

\* The places of the entries a step adds to the registry of a kind.
NewPlaces(k) == (Len(MapOf(1, k)) + 1)..Len(MapAfter(1, k))

\* C12 as claimed: the name of a newly registered constraint is made from the
\* size of the registry of its kind before the insertion, that is, the entry
\* that becomes the i-th has the ordinal i - 1.
C12_OrdinalIsSizeBefore ==
    [][\A k \in Kinds : \A i \in NewPlaces(k) :
           HasOrdinal(1, k, MapAfter(1, k)[i].second, i - 1)]_vars

\* C12 as amended: the name of a newly registered constraint is made from the
\* size of the registry of its kind after the insertion (the size before it
\* plus one): the entry that becomes the i-th has the ordinal i and not the
\* ordinal i - 1.
C12_OrdinalIsSizeAfter ==
    [][\A k \in Kinds : \A i \in NewPlaces(k) :
           /\ HasOrdinal(1, k, MapAfter(1, k)[i].second, i)
           /\ ~HasOrdinal(1, k, MapAfter(1, k)[i].second, i - 1)]_vars

\* A second attribute constraint was registered into a registry that held
\* one, next to an empty registry and a registry of one entry.
C12_Witness ==
    /\ Len(attrConstraints[1]) = 2
    /\ HasOrdinal(1, "attr", attrConstraints[1][2].second, 2)
    /\ typeConstraints[1] = <<>>
    /\ Len(propConstraints[1]) = 1

\* What a name of emitter e and of a kind holds before its ordinal.
NameStem(e, kind) == NamePrefix \o KindText(kind) \o NameInfix \o uniqueOutputLabel[e]

\* The text of the ordinal at the end of a name.
OrdinalText(e, kind, name) == SubSeq(name, Len(NameStem(e, kind)) + 1, Len(name))

\* C13. Dense ordinals: in every reachable state and for every kind, the
\* registry holds each constraint once, the name of its i-th entry (the i-th
\* distinct constraint registered) is the stem of the kind followed by the
\* decimal text of i, and so a registry of n entries carries exactly the
\* ordinals 1..n, whatever the sizes of the other registries.
C13_DenseOrdinals ==
    \A k \in Kinds :
        LET map == MapOf(1, k)
        IN  /\ NoDuplicateKeys(map)
            /\ \A i \in DOMAIN map :
                   /\ IsPrefix(NameStem(1, k), map[i].second)
                   /\ OrdinalText(1, k, map[i].second) = utostr(i)
            /\ {OrdinalText(1, k, n) : n \in Names(map)}
                 = {utostr(i) : i \in 1..Len(map)}

\* Registries of different sizes, one of them filled by a repeated
\* registration: two types, one attribute handed in twice, one property.
C13_Witness ==
    /\ Len(typeConstraints[1]) = 2
    /\ Len(attrConstraints[1]) = 1
    /\ <<"op", "attr", PositiveAttr>> \in sites[1]
    /\ <<"leaf", "attr", PositiveAttr>> \in sites[1]
    /\ Len(propConstraints[1]) = 1
    /\ OrdinalText(1, "type", typeConstraints[1][2].second) = <<"2">>
    /\ OrdinalText(1, "prop", propConstraints[1][1].second) = <<"1">>

\* What every call of collectOpConstraints leaves alone: nothing is written
\* and no lookup is in progress.
WritesNothing == ret = NoCall /\ ret' = NoCall /\ os' = os

\* Some operation of opDefs carries the property constraint c with a
\* predicate.
CarriesProp(opDefs, c) ==
    \E i \in DOMAIN opDefs : \E j \in DOMAIN opDefs[i].properties :
        opDefs[i].properties[j].prop = c /\ ~opDefs[i].properties[j].predicateIsNull

\* The three conditions on a property constraint: no marker in the condition
\* substituted under (self -> prop, op -> *op), the substituted condition is
\* not the literal true, and the interface type is not empty.
PropConditions(c) ==
    LET test == tgfmt(c.conditionTemplate, OpCtx("prop"))
    IN  /\ \A i \in DOMAIN test : test[i] # kMarkerForNoSubst
        /\ test # <<"true">>
        /\ Len(c.interfaceType) > 0

\* C14. Property eligibility in operation collection: in every call of
\* collectOpConstraints(opDefs), a property constraint is in the property
\* registry after the call iff it was there before or an operation of opDefs
\* carries it with a predicate and it meets the three conditions.
C14_PropertyEligibility ==
    [][\A opDefs \in OpDefArrays :
           (WritesNothing /\ collectOpConstraints(1, opDefs)) =>
               \A c \in PropConstraintSet :
                   Contains(propConstraints'[1], c)
                       <=> \/ Contains(propConstraints[1], c)
                           \/ CarriesProp(opDefs, c) /\ PropConditions(c)]_vars

\* Both operations were collected and no leaf: of the five property
\* constraints they carry, the registry holds the one that has a predicate
\* and meets the three conditions.
C14_Witness ==
    /\ <<"op", "successor", AnySuccessor>> \in sites[1]
    /\ <<"op", "prop", NonNegProp>> \in sites[1]
    /\ \A t \in sites[1] : t[1] = "op"
    /\ Keys(propConstraints[1]) = {NonNegProp}

\* Some operation of opDefs carries the attribute constraint c.
CarriesAttr(opDefs, c) ==
    \E i \in DOMAIN opDefs : \E j \in DOMAIN opDefs[i].attributes :
        opDefs[i].attributes[j].attr = c

\* Some operation of opDefs carries the attribute constraint c on an
\* attribute that has a predicate and is not derived.
CarriesStoredAttr(opDefs, c) ==
    \E i \in DOMAIN opDefs : \E j \in DOMAIN opDefs[i].attributes :
        /\ opDefs[i].attributes[j].attr = c
        /\ ~opDefs[i].attributes[j].predicateIsNull
        /\ ~opDefs[i].attributes[j].isDerivedAttr

\* C15 as claimed: in every call of collectOpConstraints(opDefs), an attribute
\* constraint carried by an attribute of an operation of opDefs is registered
\* iff its substituted condition holds no marker.
C15_AttrRegisteredIffNoMarker ==
    [][\A opDefs \in OpDefArrays :
           (WritesNothing /\ collectOpConstraints(1, opDefs)) =>
               \A c \in AttrConstraintSet :
                   Contains(attrConstraints'[1], c)
                       <=> \/ Contains(attrConstraints[1], c)
                           \/ CarriesAttr(opDefs, c) /\ ~Marked(c, "attr")]_vars

\* C15 as amended: in every call of collectOpConstraints(opDefs), an attribute
\* constraint is in the attribute registry after the call iff it was there
\* before or an operation of opDefs carries it on an attribute that has a
\* predicate and is not derived, and its substituted condition holds no
\* marker.
C15_AttributeEligibility ==
    [][\A opDefs \in OpDefArrays :
           (WritesNothing /\ collectOpConstraints(1, opDefs)) =>
               \A c \in AttrConstraintSet :
                   Contains(attrConstraints'[1], c)
                       <=> \/ Contains(attrConstraints[1], c)
                           \/ CarriesStoredAttr(opDefs, c) /\ ~Marked(c, "attr")]_vars

\* Both operations were collected and no leaf: the registry holds the
\* attribute constraint without a marker that a stored attribute carries, and
\* neither the one with a marker nor the one that only a derived attribute
\* and an attribute without a predicate carry.
C15_Witness ==
    /\ <<"op", "successor", AnySuccessor>> \in sites[1]
    /\ <<"op", "prop", NonNegProp>> \in sites[1]
    /\ \A t \in sites[1] : t[1] = "op"
    /\ Keys(attrConstraints[1]) = {PositiveAttr}
    /\ ~Marked(SizeAttr, "attr")
    /\ Marked(OperandAttr, "attr")

\* The step was a lookup or the taking of its result.
IsLookupStep == ret' # ret

\* The step was an operation pass that wrote something.
IsOpPass ==
    \E i \in DOMAIN Written :
        Written[i].code \in OpCodes \cup {"namespace_open", "namespace_close"}

\* C16. Read-only lookups and emission: a lookup step and an operation pass
\* leave the five registries as they are; a step that changes a registry is a
\* collection over operations, which writes nothing, or the collection of the
\* leaves of a pattern call, whose pass adds nothing to what the collection
\* registered; and every step keeps the entries each registry held, with
\* their names and in their places, in front of what it adds.
C16_ReadOnlyLookupsAndEmission ==
    [][/\ (IsLookupStep \/ IsOpPass) => UNCHANGED maps
       /\ ~(UNCHANGED maps) =>
              \/ \E opDefs \in OpDefArrays : CollectOps(1, opDefs) /\ os' = os
              \/ \E leaves \in LeafArrays : collectPatternConstraints(1, leaves)
       /\ \A k \in Kinds :
              /\ Len(MapOf(1, k)) <= Len(MapAfter(1, k))
              /\ \A i \in DOMAIN MapOf(1, k) : MapAfter(1, k)[i] = MapOf(1, k)[i]]_vars

\* With entries in every registry and both passes written, a lookup has
\* returned the name of an entry.
C16_Witness ==
    /\ \A k \in Kinds : MapOf(1, k) # <<>>
    /\ \E i \in DOMAIN os[1] : os[1][i].code = "regionConstraintCode"
    /\ \E i \in DOMAIN os[1] : os[1][i].code = "patternConstraintCode"
    /\ ret.outcome = "returned"
    /\ ret.text \in AllNames(1)

\* The routine that the pass over the registry of kind k renders for c in an
\* operation pass.
IsOpRoutineOf(p, k, c) ==
    /\ p.code \in OpCodes
    /\ PieceKind(p) = k
    /\ p.cond = tgfmt(c.conditionTemplate, OpCtx(k))
    /\ p.summary = escapeString(c.summary)
    /\ k = "prop" => p.param = c.interfaceType

PatternKinds == {"type", "attr", "prop"}

\* How many pattern routines of a name the pieces hold.
PatternRoutineCount(pieces, name) ==
    Cardinality({i \in DOMAIN pieces :
                   pieces[i].code = "patternConstraintCode" /\ pieces[i].name = name})

\* C18. Every pattern pass writes one more routine for every entry that the
\* type, attribute and property registries hold when it writes, whether the
\* entry came from the leaves of this call, from an earlier pattern call or
\* from a collection over operations: the number of pattern routines of an
\* entry in the output grows by one with each pass, so that k passes write an
\* entry registered before the first of them k times.
C18_PatternPassWritesEveryEntry ==
    [][IsPatternPass =>
         \A k \in PatternKinds : \A i \in DOMAIN MapAfter(1, k) :
             PatternRoutineCount(os'[1], MapAfter(1, k)[i].second)
               = PatternRoutineCount(os[1], MapAfter(1, k)[i].second) + 1]_vars

\* Two pattern passes after a collection over operations and no leaf ever
\* passed: the routine of the first type entry was written twice.
C18_Witness ==
    /\ sites[1] # {}
    /\ \A t \in sites[1] : t[1] = "op"
    /\ typeConstraints[1] # <<>>
    /\ PatternRoutineCount(os[1], typeConstraints[1][1].second) = 2

\* No property leaf was ever collected: the property registry was filled by
\* collectOpConstraints alone.
NoPropLeafCollected == \A t \in sites[1] : ~(t[1] = "leaf" /\ t[2] = "prop")

\* C19. If the property registry was filled by collectOpConstraints alone,
\* every property routine that an operation pass has written has a parameter
\* type that is not empty and a condition that holds no marker and is not the
\* literal true.
C19_OpPropRoutinesWellFormed ==
    NoPropLeafCollected =>
        \A i \in DOMAIN os[1] :
            os[1][i].code = "propConstraintCode" =>
                /\ os[1][i].param # <<>>
                /\ \A j \in DOMAIN os[1][i].cond : os[1][i].cond[j] # kMarkerForNoSubst
                /\ os[1][i].cond # <<"true">>

\* Both operations, with their generic, literal-true and operand-referencing
\* properties, were collected, no property leaf was, and an operation pass
\* has written a property routine.
C19_Witness ==
    /\ NoPropLeafCollected
    /\ <<"op", "successor", AnySuccessor>> \in sites[1]
    /\ <<"op", "prop", NonNegProp>> \in sites[1]
    /\ \E i \in DOMAIN os[1] :
           os[1][i].code = "propConstraintCode" /\ os[1][i].param = Int64

====
